---- MODULE Spec2Model ----
(***************************************************************************)
(* Stable hashing of attribute lists, single attributes, source files and  *)
(* feature sets (compiler/rustc_query_system/src/ich/impls_syntax.rs).     *)
(*                                                                         *)
(* The StableHasher is modelled as the sequence of fixed-width words fed   *)
(* to it (a collision-free hasher): two computations have the same         *)
(* fingerprint exactly when they fed the same sequence of words.  Words    *)
(* are integers, so a length and a position of the same value are the same *)
(* word, as they are the same bytes for the real hasher.                   *)
(***************************************************************************)
EXTENDS Integers, Sequences, FiniteSets, TLC

VARIABLES
    ignored,   \* hcx: the set of attribute names is_ignored_attr answers true for
    debug,     \* cfg(debug_assertions): TRUE in a debug build, FALSE in a release build
    entity,    \* the value whose hash_stable is called: [kind, val]
    pc,        \* per worker: "idle", "running", "returned", "panicked"
    hasher,    \* per worker: the words fed to its own StableHasher so far
    n,         \* per worker: the number of steps of the routine already executed
    passed,    \* per worker: the attributes handed to hash_attr so far
    cause,     \* per worker: which assertion ended the computation ("none" if none)
    budget,    \* per worker: the number of computations it may still start
    produced   \* the fingerprints returned to callers so far in this session

vars == <<ignored, debug, entity, pc, hasher, n, passed, cause, budget, produced>>

----------------------------------------------------------------------------
(* Bounds *)

MaxAttrs == 3       \* longest attribute list
MaxEntries == 2     \* most positions recorded over the four tables of a source file
MaxDeclared == 1    \* longest declared_lang_features / declared_lib_features
MaxRuns == 2        \* computations per worker in the concurrent session

Workers == {1, 2}
Syms == {1, 2}                      \* interned attribute / feature names
Policies == {{}, {1}, {1, 2}}       \* the ignore policies a session may be built with
Words == {0, 1}                     \* values of positions, hashes and ids

SeqsUpTo(S, k) == UNION {[1..i -> S] : i \in 0..k}

----------------------------------------------------------------------------
(* Attributes *)

DocAttr == [kind |-> "DocComment", path |-> <<>>, tokens |-> FALSE,
            style |-> 0, span |-> 0, id |-> 0]

NormalAttr(p, t) == [kind |-> "Normal", path |-> p, tokens |-> t,
                     style |-> 0, span |-> 0, id |-> 0]

\* A doc comment, #[1], #[2], #[1::2] (a path of two segments has no
\* identifier) and #[2] still carrying its token stream.
AttrUniverse ==
    {DocAttr, NormalAttr(<<1>>, FALSE), NormalAttr(<<2>>, FALSE),
     NormalAttr(<<1, 2>>, FALSE), NormalAttr(<<2>>, TRUE)}

is_doc_comment(attr) == attr.kind = "DocComment"

\* Attribute::ident(): the single segment of a Normal attribute's path, as a
\* set of at most one name (None is the empty set).
ident(attr) ==
    IF attr.kind = "Normal" /\ Len(attr.path) = 1 THEN {attr.path[1]} ELSE {}

is_ignored_attr(name, ign) == name \in ign

\* attr.ident().is_some_and(|ident| hcx.is_ignored_attr(ident.name))
IdentIgnored(attr, ign) == \E name \in ident(attr) : is_ignored_attr(name, ign)

\* The closure given to filter() in the attribute-list routine.
KeepMissingDoc(attr, ign) == ~IdentIgnored(attr, ign)
KeepFirstSegment(attr, ign) ==
    /\ ~is_doc_comment(attr)
    /\ ~(attr.kind = "Normal" /\ Len(attr.path) >= 1 /\ attr.path[1] \in ign)
Keep(attr, ign) == ~is_doc_comment(attr) /\ ~IdentIgnored(attr, ign)

\* A sequence is hashed as its length, then its elements in order.
HashSeq(s) == <<Len(s)>> \o s

\* AttrItem's derived hash: its path.
HashItem(attr) == HashSeq(attr.path)

----------------------------------------------------------------------------
(* The routines, as the sequence of steps each executes.  A step hands at   *)
(* most one attribute to hash_attr, feeds words to the hasher and then      *)
(* either goes on (panic = "none") or panics.                               *)

Step(attrs, feed, panic) == [attr |-> attrs, feed |-> feed, panic |-> panic]

hash_attr_AssertAlways(attr, ign, dbg) ==
    IF IdentIgnored(attr, ign)
    THEN Step(<<attr>>, <<>>, "debug_assert_ignored")
    ELSE IF is_doc_comment(attr)
    THEN Step(<<attr>>, <<>>, "debug_assert_doc")
    ELSE Step(<<attr>>, HashItem(attr) \o <<attr.style, attr.span>>,
              IF attr.tokens THEN "tokens" ELSE "none")
hash_attr_TokensDebugOnly(attr, ign, dbg) ==
    IF dbg /\ IdentIgnored(attr, ign)
    THEN Step(<<attr>>, <<>>, "debug_assert_ignored")
    ELSE IF dbg /\ is_doc_comment(attr)
    THEN Step(<<attr>>, <<>>, "debug_assert_doc")
    ELSE IF attr.kind = "Normal"
    THEN Step(<<attr>>, HashItem(attr) \o <<attr.style, attr.span>>,
              IF dbg /\ attr.tokens THEN "tokens" ELSE "none")
    ELSE Step(<<attr>>, <<>>, "unreachable")
hash_attr(attr, ign, dbg) ==
    IF dbg /\ IdentIgnored(attr, ign)
    THEN Step(<<attr>>, <<>>, "debug_assert_ignored")
    ELSE IF dbg /\ is_doc_comment(attr)
    THEN Step(<<attr>>, <<>>, "debug_assert_doc")
    ELSE IF attr.kind = "Normal"
    THEN Step(<<attr>>, HashItem(attr) \o <<attr.style, attr.span>>,
              IF attr.tokens THEN "tokens" ELSE "none")
    ELSE Step(<<attr>>, <<>>, "unreachable")

AttrListStepsEmptyFeedsNothing(L, ign, dbg) ==
    IF L = <<>>
    THEN <<Step(<<>>, <<>>, "none")>>
    ELSE LET filtered == SelectSeq(L, LAMBDA a : Keep(a, ign))
         IN  <<Step(<<>>, <<Len(filtered)>>, "none")>>
             \o [i \in 1..Len(filtered) |-> hash_attr(filtered[i], ign, dbg)]
AttrListSteps(L, ign, dbg) ==
    IF L = <<>>
    THEN <<Step(<<>>, <<Len(L)>>, "none")>>
    ELSE LET filtered == SelectSeq(L, LAMBDA a : Keep(a, ign))
         IN  <<Step(<<>>, <<Len(filtered)>>, "none")>>
             \o [i \in 1..Len(filtered) |-> hash_attr(filtered[i], ign, dbg)]

AttrSteps(attr, ign, dbg) == <<hash_attr(attr, ign, dbg)>>

----------------------------------------------------------------------------
(* Source files *)

SourceFileStepsAbsolute(f) ==
    << Step(<<>>, <<f.name_hash>>, "none"),
       Step(<<>>, <<f.src_hash>>, "none"),
       IF f.lines.is_lines
       THEN Step(<<>>, HashSeq([i \in 1..Len(f.lines.starts) |->
                                   f.start_pos + f.lines.starts[i]]), "none")
       ELSE Step(<<>>, <<>>, "not_lines"),
       Step(<<>>, HashSeq(f.multibyte_chars), "none"),
       Step(<<>>, HashSeq(f.non_narrow_chars), "none"),
       Step(<<>>, HashSeq(f.normalized_pos), "none"),
       Step(<<>>, <<f.cnum>>, "none") >>
SourceFileStepsNoCnum(f) ==
    << Step(<<>>, <<f.name_hash>>, "none"),
       Step(<<>>, <<f.src_hash>>, "none"),
       IF f.lines.is_lines
       THEN Step(<<>>, HashSeq(f.lines.starts), "none")
       ELSE Step(<<>>, <<>>, "not_lines"),
       Step(<<>>, HashSeq(f.multibyte_chars), "none"),
       Step(<<>>, HashSeq(f.non_narrow_chars), "none"),
       Step(<<>>, HashSeq(f.normalized_pos), "none"),
       Step(<<>>, <<>>, "none") >>
SourceFileStepsNoLengths(f) ==
    << Step(<<>>, <<f.name_hash>>, "none"),
       Step(<<>>, <<f.src_hash>>, "none"),
       IF f.lines.is_lines
       THEN Step(<<>>, f.lines.starts, "none")
       ELSE Step(<<>>, <<>>, "not_lines"),
       Step(<<>>, f.multibyte_chars, "none"),
       Step(<<>>, f.non_narrow_chars, "none"),
       Step(<<>>, f.normalized_pos, "none"),
       Step(<<>>, <<f.cnum>>, "none") >>
SourceFileSteps(f) ==
    << Step(<<>>, <<f.name_hash>>, "none"),
       Step(<<>>, <<f.src_hash>>, "none"),
       IF f.lines.is_lines
       THEN Step(<<>>, HashSeq(f.lines.starts), "none")
       ELSE Step(<<>>, <<>>, "not_lines"),
       Step(<<>>, HashSeq(f.multibyte_chars), "none"),
       Step(<<>>, HashSeq(f.non_narrow_chars), "none"),
       Step(<<>>, HashSeq(f.normalized_pos), "none"),
       Step(<<>>, <<f.cnum>>, "none") >>

----------------------------------------------------------------------------
(* Feature sets *)

\* The fields walk_feature_fields visits, in the order of their declaration.
FeatureFields == <<1, 2>>

\* walk_feature_fields(f): f(name, value) for each field, in order.
walk_feature_fields(feat) ==
    [i \in 1..Len(FeatureFields) |->
        <<FeatureFields[i], IF feat.flags[FeatureFields[i]] THEN 1 ELSE 0>>]

FeaturesStepsLibFirst(feat) ==
    << Step(<<>>, HashSeq(feat.declared_lib_features), "none"),
       Step(<<>>, HashSeq(feat.declared_lang_features), "none") >>
    \o [i \in 1..Len(FeatureFields) |->
           Step(<<>>, walk_feature_fields(feat)[i], "none")]
FeaturesSteps(feat) ==
    << Step(<<>>, HashSeq(feat.declared_lang_features), "none"),
       Step(<<>>, HashSeq(feat.declared_lib_features), "none") >>
    \o [i \in 1..Len(FeatureFields) |->
           Step(<<>>, walk_feature_fields(feat)[i], "none")]

----------------------------------------------------------------------------
(* Entities *)

Tables == SeqsUpTo(Words, MaxEntries)

\* The values of the fields hash_stable leaves out.
ExcludedFields == [name : Words, src : Words, external_src : Words,
                   start_pos : Words, source_len : Words]

SourceFileOf(nh, sh, cn, isl, ls, mb, nn, np, x) ==
    [name |-> x.name, name_hash |-> nh, cnum |-> cn, src |-> x.src,
     src_hash |-> sh, external_src |-> x.external_src,
     start_pos |-> x.start_pos, source_len |-> x.source_len,
     lines |-> [is_lines |-> isl, starts |-> ls],
     multibyte_chars |-> mb, non_narrow_chars |-> nn, normalized_pos |-> np]

\* Two load situations of a file: first in the source map, and after another.
Loaded == {[name |-> 0, src |-> 0, external_src |-> 0, start_pos |-> 0,
            source_len |-> 0],
           [name |-> 1, src |-> 1, external_src |-> 1, start_pos |-> 1,
            source_len |-> 1]}

SourceFiles ==
    {SourceFileOf(nh, sh, cn, isl, t[1], t[2], t[3], t[4], x) :
        nh \in Words, sh \in Words, cn \in Words, isl \in BOOLEAN, x \in Loaded,
        t \in {u \in Tables \X Tables \X Tables \X Tables :
                 Len(u[1]) + Len(u[2]) + Len(u[3]) + Len(u[4]) <= MaxEntries}}

FeatureSets ==
    [declared_lang_features : SeqsUpTo(Syms, MaxDeclared),
     declared_lib_features : SeqsUpTo(Syms, MaxDeclared),
     flags : [{FeatureFields[i] : i \in 1..Len(FeatureFields)} -> BOOLEAN]]

Entity(k, v) == [kind |-> k, val |-> v]

Entities ==
    {Entity("attrs", L) : L \in SeqsUpTo(AttrUniverse, MaxAttrs)}
    \cup {Entity("attr", a) : a \in AttrUniverse}
    \cup {Entity("file", f) : f \in SourceFiles}
    \cup {Entity("features", ft) : ft \in FeatureSets}

\* The entities of the concurrent session.
ConcEntities ==
    {Entity("attrs", L) : L \in SeqsUpTo(AttrUniverse, 2)}
    \cup {Entity("attr", a) : a \in AttrUniverse}
    \cup {Entity("file", SourceFileOf(0, 1, cn, isl, ls, <<1>>, <<>>, <<0>>, x)) :
             cn \in Words, isl \in BOOLEAN, ls \in SeqsUpTo(Words, 1), x \in Loaded}
    \cup {Entity("features", ft) : ft \in
             [declared_lang_features : SeqsUpTo(Syms, 1),
              declared_lib_features : {<<2>>},
              flags : [{FeatureFields[i] : i \in 1..Len(FeatureFields)} -> BOOLEAN]]}

\* The steps hash_stable executes on an entity under a context.
StepsOf(e, ign, dbg) ==
    CASE e.kind = "attrs" -> AttrListSteps(e.val, ign, dbg)
      [] e.kind = "attr" -> AttrSteps(e.val, ign, dbg)
      [] e.kind = "file" -> SourceFileSteps(e.val)
      [] e.kind = "features" -> FeaturesSteps(e.val)

\* Running steps from the i-th on with the words h already fed: the
\* computation returns after the last step, or panics at the first step that
\* panics, with what that step fed before its assertion already in the hasher.
RECURSIVE RunFrom(_, _, _)
RunFrom(steps, i, h) ==
    IF i > Len(steps)
    THEN [status |-> "returned", stream |-> h, cause |-> "none"]
    ELSE IF steps[i].panic # "none"
    THEN [status |-> "panicked", stream |-> h \o steps[i].feed,
          cause |-> steps[i].panic]
    ELSE RunFrom(steps, i + 1, h \o steps[i].feed)

Run(e, ign, dbg) == RunFrom(StepsOf(e, ign, dbg), 1, <<>>)

----------------------------------------------------------------------------
(* Actions *)

\* A panic unwinds the process: no worker goes on after it.
Aborted == \E w \in Workers : pc[w] = "panicked"

\* A caller creates a fresh StableHasher and calls hash_stable.
Call(w) ==
    /\ ~Aborted
    /\ pc[w] \in {"idle", "returned"}
    /\ budget[w] > 0
    /\ budget' = [budget EXCEPT ![w] = @ - 1]
    /\ pc' = [pc EXCEPT ![w] = "running"]
    /\ hasher' = [hasher EXCEPT ![w] = <<>>]
    /\ n' = [n EXCEPT ![w] = 0]
    /\ passed' = [passed EXCEPT ![w] = <<>>]
    /\ UNCHANGED <<ignored, debug, entity, cause, produced>>

\* The next step of the routine: its words go to the worker's own hasher; an
\* assertion that fails panics; after the last step the routine returns and
\* the caller takes the fingerprint.
ExecMemoizing(w, steps) ==
    /\ ~Aborted
    /\ pc[w] = "running"
    /\ n[w] < Len(steps)
    /\ LET s == steps[n[w] + 1]
           h == hasher[w] \o s.feed
       IN  /\ hasher' = [hasher EXCEPT ![w] = h]
           /\ passed' = [passed EXCEPT ![w] = @ \o s.attr]
           /\ n' = [n EXCEPT ![w] = @ + 1]
           /\ cause' = [cause EXCEPT ![w] = s.panic]
           /\ ignored' = ignored \cup UNION {ident(s.attr[i]) : i \in 1..Len(s.attr)}
           /\ IF s.panic # "none"
              THEN pc' = [pc EXCEPT ![w] = "panicked"] /\ UNCHANGED produced
              ELSE IF n[w] + 1 = Len(steps)
              THEN /\ pc' = [pc EXCEPT ![w] = "returned"]
                   /\ produced' = produced \cup {h}
              ELSE UNCHANGED <<pc, produced>>
    /\ UNCHANGED <<debug, entity, budget>>
Exec(w, steps) ==
    /\ ~Aborted
    /\ pc[w] = "running"
    /\ n[w] < Len(steps)
    /\ LET s == steps[n[w] + 1]
           h == hasher[w] \o s.feed
       IN  /\ hasher' = [hasher EXCEPT ![w] = h]
           /\ passed' = [passed EXCEPT ![w] = @ \o s.attr]
           /\ n' = [n EXCEPT ![w] = @ + 1]
           /\ cause' = [cause EXCEPT ![w] = s.panic]
           /\ IF s.panic # "none"
              THEN pc' = [pc EXCEPT ![w] = "panicked"] /\ UNCHANGED produced
              ELSE IF n[w] + 1 = Len(steps)
              THEN /\ pc' = [pc EXCEPT ![w] = "returned"]
                   /\ produced' = produced \cup {h}
              ELSE UNCHANGED <<pc, produced>>
    /\ UNCHANGED <<ignored, debug, entity, budget>>

HashAttrList(w) ==
    /\ entity.kind = "attrs"
    /\ Exec(w, AttrListSteps(entity.val, ignored, debug))

HashAttr(w) ==
    /\ entity.kind = "attr"
    /\ Exec(w, AttrSteps(entity.val, ignored, debug))

HashSourceFile(w) ==
    /\ entity.kind = "file"
    /\ Exec(w, SourceFileSteps(entity.val))

HashFeatures(w) ==
    /\ entity.kind = "features"
    /\ Exec(w, FeaturesSteps(entity.val))

Start(ents, b) ==
    /\ ignored \in Policies
    /\ debug \in BOOLEAN
    /\ entity \in ents
    /\ pc = [w \in Workers |-> "idle"]
    /\ hasher = [w \in Workers |-> <<>>]
    /\ n = [w \in Workers |-> 0]
    /\ passed = [w \in Workers |-> <<>>]
    /\ cause = [w \in Workers |-> "none"]
    /\ budget = b
    /\ produced = {}

\* One computation of one entity, by one thread.
Init == Start(Entities, [w \in Workers |-> IF w = 1 THEN 1 ELSE 0])

\* A session in which every worker computes the entity's fingerprint MaxRuns
\* times against the same context.
ConcInit == Start(ConcEntities, [w \in Workers |-> MaxRuns])

Next ==
    \E w \in Workers :
        \/ Call(w)
        \/ HashAttrList(w)
        \/ HashAttr(w)
        \/ HashSourceFile(w)
        \/ HashFeatures(w)

Spec == Init /\ [][Next]_vars

FairSpec == Init /\ [][Next]_vars /\ WF_vars(Next)

ConcSpec == ConcInit /\ [][Next]_vars

Finished(w) == pc[w] \in {"returned", "panicked"}

----------------------------------------------------------------------------
(* The vocabulary of the claims *)

HasIdentifier(a) == a.kind = "Normal" /\ Len(a.path) = 1

\* A documentation comment, or an attribute whose identifier the policy ignores.
DocOrIgnored(a, ign) ==
    \/ a.kind = "DocComment"
    \/ HasIdentifier(a) /\ a.path[1] \in ign

\* L with every documentation comment and every policy-ignored attribute deleted.
Deleted(L, ign) == SelectSeq(L, LAMBDA a : ~DocOrIgnored(a, ign))

IsAttrs == entity.kind = "attrs"
IsAttr == entity.kind = "attr"
IsFile == entity.kind = "file"
IsFeatures == entity.kind = "features"

\* C1: the attribute-list routine feeds, for every list and policy, exactly
\* what it feeds for the list with every documentation comment and every
\* policy-ignored attribute deleted (same words, same outcome).
C1_AttrFiltering ==
    \A w \in Workers :
        (IsAttrs /\ Finished(w)) =>
            LET r == Run(Entity("attrs", Deleted(entity.val, ignored)), ignored, debug)
            IN  pc[w] = r.status /\ hasher[w] = r.stream

\* A list of a doc comment, an ignored attribute and a significant one is hashed.
C1_Witness ==
    \E w \in Workers :
        /\ IsAttrs /\ pc[w] = "returned" /\ Len(entity.val) = 3
        /\ \E i, j \in 1..3 :
              /\ entity.val[i].kind = "DocComment"
              /\ HasIdentifier(entity.val[j]) /\ entity.val[j].path[1] \in ignored
        /\ Len(Deleted(entity.val, ignored)) = 1

\* C2 as stated: the fingerprint of every non-empty attribute list differs from
\* the zero-length marker <<0>> of the empty list.
C2_EmptyDistinctFromEveryNonEmpty ==
    \A w \in Workers :
        (IsAttrs /\ pc[w] = "returned" /\ entity.val # <<>>) => hasher[w] # <<0>>

\* C2 amended: the empty list feeds only the length 0, and a list feeds that
\* same single 0 exactly when no attribute of it survives the deletion of
\* documentation comments and policy-ignored attributes.
C2_EmptyMarker ==
    \A w \in Workers :
        (IsAttrs /\ Finished(w)) =>
            /\ entity.val = <<>> => (pc[w] = "returned" /\ hasher[w] = <<0>>)
            /\ hasher[w] = <<0>> <=> Deleted(entity.val, ignored) = <<>>

C2_Witness ==
    \E w \in Workers :
        IsAttrs /\ entity.val = <<>> /\ pc[w] = "returned" /\ hasher[w] = <<0>>

\* The file f with its excluded fields set to x.
WithExcluded(f, x) ==
    [f EXCEPT !.name = x.name, !.src = x.src, !.external_src = x.external_src,
              !.start_pos = x.start_pos, !.source_len = x.source_len]

\* C3: a source file feeds the same words, with the same outcome, as every
\* file that agrees with it on the hashed fields, whatever the raw name, the
\* source text, the external source, the start position and the length are.
C3_PathIndependence ==
    \A w \in Workers :
        (IsFile /\ Finished(w)) =>
            \A x \in ExcludedFields :
                LET r == Run(Entity("file", WithExcluded(entity.val, x)), ignored, debug)
                IN  pc[w] = r.status /\ hasher[w] = r.stream

\* A file loaded after another one (start_pos 1), with a line table, is hashed.
C3_Witness ==
    \E w \in Workers :
        /\ IsFile /\ pc[w] = "returned"
        /\ entity.val.start_pos = 1 /\ entity.val.name = 1
        /\ Len(entity.val.lines.starts) = 2

\* The lists that differ from L in the identifier of the attribute at i.
IdentAltered(L, i) ==
    {[L EXCEPT ![i].path = <<s>>] : s \in Syms \ {L[i].path[1]}}

\* The sequences that differ from t in one element.
OneElementAltered(t) ==
    {[t EXCEPT ![i] = v] : i \in 1..Len(t), v \in Words} \ {t}

\* The files that differ from f in one hashed field.
FileAltered(f) ==
    UNION {
    {[f EXCEPT !.name_hash = v] : v \in Words}, {[f EXCEPT !.src_hash = v] : v \in Words},
    {[f EXCEPT !.cnum = v] : v \in Words},
    {[f EXCEPT !.lines.starts = t] : t \in OneElementAltered(f.lines.starts)},
    {[f EXCEPT !.multibyte_chars = t] : t \in OneElementAltered(f.multibyte_chars)},
    {[f EXCEPT !.non_narrow_chars = t] : t \in OneElementAltered(f.non_narrow_chars)},
    {[f EXCEPT !.normalized_pos = t] : t \in OneElementAltered(f.normalized_pos)} } \ {f}

\* The feature sets that differ from ft in the value of one flag.
FlagAltered(ft) ==
    {[ft EXCEPT !.flags[k] = ~@] : k \in DOMAIN ft.flags}

\* The words a computation of e feeds differ from the fingerprint worker w got.
Differs(w, e) == Run(e, ignored, debug).stream # hasher[w]

SensitiveFile(w) ==
    (IsFile /\ pc[w] = "returned") =>
        \A g \in FileAltered(entity.val) : Differs(w, Entity("file", g))

SensitiveFeatures(w) ==
    (IsFeatures /\ pc[w] = "returned") =>
        \A g \in FlagAltered(entity.val) : Differs(w, Entity("features", g))

\* C4 as stated: altering one attribute's identifier, one hashed field of a
\* source file or one feature flag's value always changes the fingerprint.
C4_EveryAlterationChanges ==
    \A w \in Workers :
        /\ (IsAttrs /\ pc[w] = "returned") =>
              \A i \in 1..Len(entity.val) :
                  HasIdentifier(entity.val[i]) =>
                      \A M \in IdentAltered(entity.val, i) :
                          Differs(w, Entity("attrs", M))
        /\ SensitiveFile(w)
        /\ SensitiveFeatures(w)

\* C4 amended: the same, except that altering the identifier of an attribute
\* the policy ignores under both the old and the new identifier changes nothing.
C4_Sensitivity ==
    \A w \in Workers :
        /\ (IsAttrs /\ pc[w] = "returned") =>
              \A i \in 1..Len(entity.val) :
                  HasIdentifier(entity.val[i]) =>
                      \A M \in IdentAltered(entity.val, i) :
                          ~(entity.val[i].path[1] \in ignored /\ M[i].path[1] \in ignored)
                              => Differs(w, Entity("attrs", M))
        /\ SensitiveFile(w)
        /\ SensitiveFeatures(w)

\* An attribute list with a significant identifier and a file with a line
\* table have been fingerprinted.
C4_Witness ==
    \E w \in Workers :
        /\ pc[w] = "returned"
        /\ IsAttrs
        /\ \E i \in 1..Len(entity.val) :
              HasIdentifier(entity.val[i]) /\ ~(entity.val[i].path[1] \in ignored)
        /\ \E i \in 1..Len(entity.val) :
              HasIdentifier(entity.val[i]) /\ entity.val[i].path[1] \in ignored

\* Reading, at position p of the stream s, a length and then that many words.
ReadSeq(s, p) ==
    IF p >= 1 /\ p <= Len(s) /\ s[p] >= 0 /\ p + s[p] <= Len(s)
    THEN [ok |-> TRUE, val |-> SubSeq(s, p + 1, p + s[p]), next |-> p + s[p] + 1]
    ELSE [ok |-> FALSE, val |-> <<>>, next |-> Len(s) + 2]

FileFields(ok, nh, sh, ls, mb, nn, np, cn) ==
    [ok |-> ok, name_hash |-> nh, src_hash |-> sh, lines |-> ls,
     multibyte_chars |-> mb, non_narrow_chars |-> nn, normalized_pos |-> np,
     cnum |-> cn]

\* Reading a stream back as name hash, content hash, four length-prefixed
\* tables and a compilation-unit id, with nothing left over.
DecodeFile(s) ==
    LET ls == ReadSeq(s, 3)
        mb == ReadSeq(s, ls.next)
        nn == ReadSeq(s, mb.next)
        np == ReadSeq(s, nn.next)
    IN  IF Len(s) >= 2 /\ ls.ok /\ mb.ok /\ nn.ok /\ np.ok /\ np.next = Len(s)
        THEN FileFields(TRUE, s[1], s[2], ls.val, mb.val, nn.val, np.val, s[np.next])
        ELSE FileFields(FALSE, 0, 0, <<>>, <<>>, <<>>, <<>>, 0)

HashedFields(f) ==
    FileFields(TRUE, f.name_hash, f.src_hash, f.lines.starts, f.multibyte_chars,
               f.non_narrow_chars, f.normalized_pos, f.cnum)

\* Reading k attributes from position p: a length-prefixed path, a style and a span each.
RECURSIVE DecodeAttrsFrom(_, _, _)
DecodeAttrsFrom(s, p, k) ==
    IF k <= 0
    THEN [ok |-> k = 0 /\ p = Len(s) + 1, val |-> <<>>]
    ELSE LET path == ReadSeq(s, p)
         IN  IF path.ok /\ path.next + 1 <= Len(s)
             THEN LET rest == DecodeAttrsFrom(s, path.next + 2, k - 1)
                  IN  [ok |-> rest.ok,
                       val |-> <<[path |-> path.val, style |-> s[path.next],
                                  span |-> s[path.next + 1]]>> \o rest.val]
             ELSE [ok |-> FALSE, val |-> <<>>]

DecodeAttrs(s) ==
    IF Len(s) >= 1 THEN DecodeAttrsFrom(s, 2, s[1]) ELSE [ok |-> FALSE, val |-> <<>>]

HashedAttrs(L) ==
    [i \in 1..Len(L) |-> [path |-> L[i].path, style |-> L[i].style, span |-> L[i].span]]

\* C5: the words a source file feeds read back, as name hash, content hash,
\* the four tables each as a length and then its elements, and the
\* compilation-unit id, to exactly its hashed fields; the words an attribute
\* list feeds read back, as a length and then that many attributes, to the
\* attributes that survive the filter.  So entities that differ in a hashed
\* sequence never feed the same words.
C5_UniquelyDecodable ==
    \A w \in Workers :
        /\ (IsFile /\ pc[w] = "returned") =>
              DecodeFile(hasher[w]) = HashedFields(entity.val)
        /\ (IsAttrs /\ pc[w] = "returned") =>
              LET d == DecodeAttrs(hasher[w])
              IN  d.ok /\ d.val = HashedAttrs(Deleted(entity.val, ignored))

\* A file whose line table and multibyte table hold one position each: without
\* the lengths, moving a position from one table to the other feeds the same words.
C5_Witness ==
    \E w \in Workers :
        /\ IsFile /\ pc[w] = "returned"
        /\ Len(entity.val.lines.starts) = 1
        /\ Len(entity.val.multibyte_chars) = 1
        /\ entity.val.non_narrow_chars = <<>>

\* C6: however the workers' computations of the entity interleave and however
\* often they recompute it, every fingerprint returned is the same one, and no
\* step changes the ignore policy of the context.
C6_Determinism ==
    /\ [](Cardinality(produced) <= 1
          /\ \A w \in Workers : pc[w] = "returned" => hasher[w] \in produced)
    /\ [][ignored' = ignored]_vars

\* Both workers have computed the fingerprint of an attribute list with a
\* significant attribute MaxRuns times each.
C6_Witness ==
    /\ \A w \in Workers : pc[w] = "returned" /\ budget[w] = 0
    /\ IsAttrs /\ Len(Deleted(entity.val, ignored)) >= 1
    /\ Len(entity.val) > Len(Deleted(entity.val, ignored))

\* An attribute that survives the filter still carries its token stream.
KeptTokens(L, ign) ==
    \E i \in 1..Len(L) : ~DocOrIgnored(L[i], ign) /\ L[i].tokens

Malformed(e, ign) ==
    CASE e.kind = "attrs" -> KeptTokens(e.val, ign)
      [] e.kind = "attr" -> e.val.kind = "Normal" /\ e.val.tokens
      [] e.kind = "file" -> ~e.val.lines.is_lines
      [] e.kind = "features" -> FALSE

\* The entity satisfies the preconditions of its routine.
WellFormed(e, ign) ==
    CASE e.kind = "attrs" -> ~KeptTokens(e.val, ign)
      [] e.kind = "attr" ->
            e.val.kind = "Normal" /\ ~e.val.tokens /\ ~DocOrIgnored(e.val, ign)
      [] e.kind = "file" -> e.val.lines.is_lines
      [] e.kind = "features" -> TRUE

\* C8: a computation on a malformed entity ends in a panic and one on a
\* well-formed entity returns, with all the words of the routine fed; a panic
\* is final; and every computation that was started ends in one of the two.
C8_Outcomes ==
    /\ [](\A w \in Workers :
            /\ pc[w] \in {"idle", "running", "returned", "panicked"}
            /\ Finished(w) =>
                  /\ Malformed(entity, ignored) => pc[w] = "panicked"
                  /\ WellFormed(entity, ignored) => pc[w] = "returned"
            /\ pc[w] = "returned" =>
                  /\ n[w] = Len(StepsOf(entity, ignored, debug))
                  /\ hasher[w] = Run(entity, ignored, debug).stream
            /\ pc[w] = "panicked" => hasher[w] \notin produced)
    /\ [][\A w \in Workers : pc[w] = "panicked" => pc'[w] = "panicked"]_vars
    /\ \A w \in Workers : (pc[w] = "running") ~> Finished(w)

\* A list whose surviving attribute carries tokens has panicked after feeding
\* some words: the partial result reaches nobody.
C8_Witness ==
    \E w \in Workers :
        /\ IsAttrs /\ KeptTokens(entity.val, ignored)
        /\ pc[w] = "panicked" /\ Len(hasher[w]) > 1 /\ produced = {}

RECURSIVE Flatten(_)
Flatten(ss) == IF ss = <<>> THEN <<>> ELSE Head(ss) \o Flatten(Tail(ss))

\* C9: the feature-set routine feeds the declared language features, then the
\* declared library features, then name and value of each field in the order
\* of the enumeration; every run over the same feature set returns that stream.
C9_FeatureOrder ==
    \A w \in Workers :
        (IsFeatures /\ pc[w] = "returned") =>
            /\ hasher[w] =
                  <<Len(entity.val.declared_lang_features)>>
                  \o entity.val.declared_lang_features
                  \o <<Len(entity.val.declared_lib_features)>>
                  \o entity.val.declared_lib_features
                  \o Flatten([i \in 1..Len(FeatureFields) |->
                        <<FeatureFields[i],
                          IF entity.val.flags[FeatureFields[i]] THEN 1 ELSE 0>>])
            /\ produced = {hasher[w]}

\* Both workers have run the routine MaxRuns times over a feature set whose
\* two declared collections differ.
C9_Witness ==
    /\ IsFeatures
    /\ \A w \in Workers : pc[w] = "returned" /\ budget[w] = 0
    /\ entity.val.declared_lang_features # entity.val.declared_lib_features
    /\ entity.val.flags[1] # entity.val.flags[2]

\* C10: every attribute the list routine hands to hash_attr is neither a
\* documentation comment nor policy-ignored, so neither debug assertion fails
\* and unreachable!() is not executed; and every Normal attribute without an
\* identifier is handed to hash_attr.
C10_FilterComplete ==
    \A w \in Workers :
        IsAttrs =>
            /\ \A i \in 1..Len(passed[w]) : ~DocOrIgnored(passed[w][i], ignored)
            /\ cause[w] \notin {"debug_assert_ignored", "debug_assert_doc", "unreachable"}
            /\ pc[w] = "returned" =>
                  \A i \in 1..Len(entity.val) :
                      (entity.val[i].kind = "Normal" /\ ~HasIdentifier(entity.val[i]))
                          => \E j \in 1..Len(passed[w]) : passed[w][j] = entity.val[i]

\* A debug build has hashed a list holding a documentation comment, an ignored
\* attribute and an attribute without identifier whose first segment is ignored.
C10_Witness ==
    \E w \in Workers :
        /\ IsAttrs /\ debug /\ pc[w] = "returned" /\ Len(passed[w]) = 1
        /\ \E i, j, k \in 1..Len(entity.val) :
              /\ entity.val[i].kind = "DocComment"
              /\ HasIdentifier(entity.val[j]) /\ entity.val[j].path[1] \in ignored
              /\ entity.val[k].kind = "Normal" /\ Len(entity.val[k].path) = 2
              /\ entity.val[k].path[1] \in ignored

====
